---- MODULE Spec2Model ----
(***************************************************************************)
(* aiobservable: Observable (the hub) and Subscription, with the asyncio   *)
(* event loop they run on.  The loop is a FIFO queue of ready entries      *)
(* (loop.create_task and a future's wake-up both go through call_soon);    *)
(* user code (on, off, once, emit, subscribe, next, unsubscribe, ...) may  *)
(* run between any two entries.                                            *)
(***************************************************************************)
EXTENDS Integers, Sequences, FiniteSets, TLC

\* ---------------------------------------------------------------- bounds
MaxEmits == 2      \* emit calls made by user code
MaxOps == 2        \* on / once / off calls
MaxSubs == 1       \* subscribe calls
MaxNext == 2       \* next calls of a subscription's consumer

\* --------------------------------------------------------------- domains
Hubs == {"h1", "h2"}
\* hubs are only nested downwards (h1 above h2): a cycle of hubs recurses
\* without end in __emit
Rank(h) == IF h = "h1" THEN 1 ELSE 2

ListenerError == "LE"
Tags == {"A", "B", ListenerError}
\* subscribe() without a tag registers under the key None
NoneKey == "None"
\* subscribe((Event, Event2)) registers under the tuple it was given
GroupTags == {"A", "B"}
GroupKey == "(A, B)"
Keys == Tags \cup {NoneKey, GroupKey}

Callbacks == {"c1", "c2"}
\* c2 is a coroutine function (maybe_await awaits its result), c1 is not
AsyncCallbacks == {"c2"}

\* predicate=None, or a predicate p; whether a call of p suspends (p is a
\* coroutine function and awaits) is decided call by call
NoPred == "none"
Preds == {NoPred, "p"}
\* what a predicate does with an event is decided by the event's payload:
\* 0: returns False, 1: returns True, 2: raises
Payloads == {0, 1, 2}
PredResult(p, ev) ==
    IF p = NoPred THEN "true"
    ELSE IF ev.a = 1 THEN "true"
    ELSE IF ev.a = 2 THEN "raise"
    ELSE "false"

\* the constructor's events argument: None, or an iterable of tags
NoAllowList == [none |-> TRUE, tags |-> {}]
AllowList(tags) == [none |-> FALSE, tags |-> tags]
CtorEvents == {NoAllowList, AllowList({"A"})}

NoEvent == [tag |-> "-", a |-> 0, id |-> 0, of |-> 0, by |-> "-"]
\* ListenerError(event, listener, e)
MkListenerError(id, ev, cb) ==
    [tag |-> ListenerError, a |-> 0, id |-> id, of |-> ev.id, by |-> cb]

VARIABLES
    allowed,         \* hub -> Observable.__events
    listeners,       \* hub -> tag -> sequence of callbacks
    once_listeners,  \* hub -> tag -> sequence of <<callback, predicate>>
    child_emitters,  \* hub -> sequence of hubs
    subscriptions,   \* hub -> key -> sequence of subscription ids
    subs,            \* subscription id -> Subscription object and its consumer
    tasks,           \* task id -> task created by loop.create_task
    ready,           \* the loop's queue of ready entries
    ems,             \* history: every call of __emit
    calls,           \* history: every invocation of a callback
    returned,        \* history: how every next() call ended
    log,             \* history: log.error / log.warning records
    regs,            \* history: every successful call of once
    last,            \* history: the last call of the API and the error it raised
    nOps             \* on / once / off calls made so far

vars == <<allowed, listeners, once_listeners, child_emitters, subscriptions,
          subs, tasks, ready, ems, calls, returned, log, regs, last, nOps>>

\* ------------------------------------------------------------ sequences
SeqSet(s) == {s[i] : i \in 1..Len(s)}
Contains(s, x) == \E i \in 1..Len(s) : s[i] = x
FirstIndex(s, x) == CHOOSE i \in 1..Len(s) : s[i] = x /\ \A j \in 1..(i-1) : s[j] # x
\* list.remove(x): drops the first element equal to x
ListRemove(s, x) ==
    LET k == FirstIndex(s, x)
    IN [i \in 1..(Len(s)-1) |-> IF i < k THEN s[i] ELSE s[i+1]]
Count(s, P(_)) == Cardinality({i \in 1..Len(s) : P(s[i])})

\* ------------------------------------------------------- the event loop
TaskEntry(t) == [k |-> "task", id |-> t]
ConsEntry(s) == [k |-> "cons", id |-> s]

\* The mutable objects a call of __emit touches, passed through the
\* operators below: the subscriptions, the loop's tasks and queue, the
\* histories, and whether the call raised.
World ==
    [subs |-> subs, tasks |-> tasks, ready |-> ready, ems |-> ems,
     log |-> log, raised |-> FALSE]

\* asyncio.Event.set(): a waiter blocked in wait() is scheduled by call_soon
EventSet(w, s) ==
    IF w.subs[s].event_set THEN w
    ELSE IF w.subs[s].pc = "waiting"
    THEN [w EXCEPT !.subs[s].event_set = TRUE, !.subs[s].pc = "woken",
                   !.ready = Append(@, ConsEntry(s))]
    ELSE [w EXCEPT !.subs[s].event_set = TRUE]

\* SubEmit that keeps an event nobody has read yet
SubEmit_KeepUnread(w, s, ev) ==
    IF w.subs[s].closed
    THEN [w EXCEPT !.log = Append(@, [what |-> "closed_subscription", sub |-> s,
                                      ev |-> ev.id, hub |-> w.subs[s].hub])]
    ELSE EventSet([w EXCEPT !.subs[s].current = IF w.subs[s].event_set THEN @ ELSE ev,
                            !.subs[s].pushed = Append(@, ev.id)], s)

\* Subscription._emit
SubEmit(w, s, ev) ==
    IF w.subs[s].closed
    THEN [w EXCEPT !.log = Append(@, [what |-> "closed_subscription", sub |-> s,
                                      ev |-> ev.id, hub |-> w.subs[s].hub])]
    ELSE EventSet([w EXCEPT !.subs[s].current = ev,
                            !.subs[s].pushed = Append(@, ev.id)], s)

\* Observable.__check_event: TRUE when the tag passes
CheckEvent(h, tag) == allowed[h].none \/ tag \in allowed[h].tags

RECURSIVE PushAll(_, _, _)
PushAll(w, list, ev) ==
    IF list = <<>> THEN w
    ELSE PushAll(SubEmit(w, Head(list), ev), Tail(list), ev)

\* EmitSubscriptions that passes over the wildcard subscriptions
EmitSubscriptions_TagOnly(w, h, ev) ==
    PushAll(w, subscriptions[h][ev.tag], ev)

\* Observable.__emit_subscriptions
EmitSubscriptions(w, h, ev) ==
    PushAll(w, subscriptions[h][ev.tag] \o subscriptions[h][NoneKey], ev)

NewTask(kind, h, ev, cb, pred, ign, em, waiter) ==
    [kind |-> kind, hub |-> h, ev |-> ev, cb |-> cb, pred |-> pred, ign |-> ign,
     em |-> em, waiter |-> waiter, pc |-> "start", awaited |-> FALSE]

\* loop.create_task
CreateTask(w, t) ==
    [w EXCEPT !.tasks = Append(@, t),
              !.ready = Append(@, TaskEntry(Len(w.tasks) + 1))]

RECURSIVE OnceTasks(_, _, _, _, _, _)
OnceTasks(w, tups, h, ev, ign, em) ==
    IF tups = <<>> THEN w
    ELSE OnceTasks(CreateTask(w, NewTask("once", h, ev, Head(tups)[1], Head(tups)[2],
                                         ign, em, 0)),
                   Tail(tups), h, ev, ign, em)

\* Observable.__emit_once_listeners: one task per registered pair
EmitOnceListeners(w, h, ev, ign, em) ==
    OnceTasks(w, once_listeners[h][ev.tag], h, ev, ign, em)

RECURSIVE ListenerTasks(_, _, _, _, _, _)
ListenerTasks(w, cbs, h, ev, ign, em) ==
    IF cbs = <<>> THEN w
    ELSE ListenerTasks(CreateTask(w, NewTask("fire", h, ev, Head(cbs), NoPred,
                                             ign, em, 0)),
                       Tail(cbs), h, ev, ign, em)

\* EmitListeners with the listeners of every tag fired
EmitListeners_EveryTag(w, h, ev, ign, em) ==
    ListenerTasks(w, listeners[h]["A"] \o listeners[h]["B"] \o listeners[h][ListenerError],
                  h, ev, ign, em)

\* EmitListeners that creates the task of the first listener only
EmitListeners_FirstOnly(w, h, ev, ign, em) ==
    ListenerTasks(w, IF listeners[h][ev.tag] = <<>> THEN <<>>
                     ELSE <<Head(listeners[h][ev.tag])>>,
                  h, ev, ign, em)

\* Observable.__emit_listeners: one __fire_listener task per listener
EmitListeners(w, h, ev, ign, em) ==
    ListenerTasks(w, listeners[h][ev.tag], h, ev, ign, em)

RECURSIVE EmitW(_, _, _, _, _, _)
RECURSIVE EmitChildren(_, _, _, _)

\* the loop over __child_emitters: emitter.emit(event); an exception of a
\* child's emit ends the loop and leaves __emit
EmitChildren(w, kids, ev, em) ==
    IF kids = <<>> THEN w
    ELSE LET w1 == EmitW(w, Head(kids), ev, FALSE, em, "child")
         IN IF w1.raised THEN w1 ELSE EmitChildren(w1, Tail(kids), ev, em)

\* Observable.__emit.  parent is the emission whose gather awaits this
\* one's future (0: none); src is who called: "user", "child" (a parent
\* hub forwarding) or "listener" (__fire_listener's except branch).
EmitW(w, h, ev, ign, parent, src) ==
    LET em == Len(w.ems) + 1
        \* perm, once, targets and kids record the listeners, one-shot pairs,
        \* subscriptions and child hubs the call found
        rec == [hub |-> h, ev |-> ev, ign |-> ign, parent |-> parent, src |-> src,
                checked |-> CheckEvent(h, ev.tag), raised |-> FALSE,
                perm |-> listeners[h][ev.tag], once |-> once_listeners[h][ev.tag],
                targets |-> subscriptions[h][ev.tag] \o subscriptions[h][NoneKey],
                kids |-> child_emitters[h]]
    IN IF ~CheckEvent(h, ev.tag)
       THEN [w EXCEPT !.ems = Append(@, [rec EXCEPT !.raised = TRUE]),
                      !.raised = TRUE]
       ELSE LET w0 == [w EXCEPT !.ems = Append(@, rec)]
                w1 == EmitSubscriptions(w0, h, ev)
                w2 == EmitOnceListeners(w1, h, ev, ign, em)
                w3 == EmitListeners(w2, h, ev, ign, em)
                w4 == EmitChildren(w3, child_emitters[h], ev, em)
            IN IF w4.raised THEN [w4 EXCEPT !.ems[em].raised = TRUE] ELSE w4

\* the state an operation leaves, read off the world it returns
Commit(w) ==
    /\ subs' = w.subs
    /\ tasks' = w.tasks
    /\ ready' = w.ready
    /\ ems' = w.ems
    /\ log' = w.log

\* ------------------------------------------------------------ registries
NoError == ""
TypeError == "TypeError"
ValueError == "ValueError"
Call(op, h, tag, cb, err) == [op |-> op, hub |-> h, tag |-> tag, cb |-> cb, err |-> err]

Registries == <<listeners, once_listeners, child_emitters, subscriptions>>
LoopState == <<subs, tasks, ready, ems, calls, returned, log>>

\* _check_listener that lets every listener through
CheckListener_Always(list, cb) == TRUE

\* _check_listener: TRUE when the listener may be added
CheckListener(list, cb) == ~Contains(list, cb)

\* Observable.on
On(h, tag, cb) ==
    /\ nOps < MaxOps
    /\ nOps' = nOps + 1
    /\ IF ~CheckEvent(h, tag)
       THEN /\ last' = Call("on", h, tag, cb, TypeError)
            /\ UNCHANGED listeners
       ELSE IF ~CheckListener(listeners[h][tag], cb)
       THEN /\ last' = Call("on", h, tag, cb, ValueError)
            /\ UNCHANGED listeners
       ELSE /\ last' = Call("on", h, tag, cb, NoError)
            /\ listeners' = [listeners EXCEPT ![h][tag] = Append(@, cb)]
    /\ UNCHANGED <<allowed, once_listeners, child_emitters, subscriptions, regs>>
    /\ UNCHANGED LoopState

\* Off that passes over a pair that is not registered
Off_Silent(h, tag, cb) ==
    /\ nOps < MaxOps
    /\ nOps' = nOps + 1
    /\ IF tag = NoneKey
       THEN /\ last' = Call("off", h, tag, cb, NoError)
            /\ listeners' = [listeners EXCEPT ![h] = [t \in Tags |-> <<>>]]
       ELSE IF ~CheckEvent(h, tag)
       THEN /\ last' = Call("off", h, tag, cb, TypeError)
            /\ UNCHANGED listeners
       ELSE IF cb = NoneKey
       THEN /\ last' = Call("off", h, tag, cb, NoError)
            /\ listeners' = [listeners EXCEPT ![h][tag] = <<>>]
       ELSE IF Contains(listeners[h][tag], cb)
       THEN /\ last' = Call("off", h, tag, cb, NoError)
            /\ listeners' = [listeners EXCEPT ![h][tag] = ListRemove(@, cb)]
       ELSE /\ last' = Call("off", h, tag, cb, NoError)
            /\ UNCHANGED listeners
    /\ UNCHANGED <<allowed, once_listeners, child_emitters, subscriptions, regs>>
    /\ UNCHANGED LoopState

\* Observable.off: off(), off(event) and off(event, callback); tag and cb
\* are "None" for an argument left out
Off(h, tag, cb) ==
    /\ nOps < MaxOps
    /\ nOps' = nOps + 1
    /\ IF tag = NoneKey
       THEN /\ last' = Call("off", h, tag, cb, NoError)
            /\ listeners' = [listeners EXCEPT ![h] = [t \in Tags |-> <<>>]]
       ELSE IF ~CheckEvent(h, tag)
       THEN /\ last' = Call("off", h, tag, cb, TypeError)
            /\ UNCHANGED listeners
       ELSE IF cb = NoneKey
       THEN /\ last' = Call("off", h, tag, cb, NoError)
            /\ listeners' = [listeners EXCEPT ![h][tag] = <<>>]
       ELSE IF Contains(listeners[h][tag], cb)
       THEN /\ last' = Call("off", h, tag, cb, NoError)
            /\ listeners' = [listeners EXCEPT ![h][tag] = ListRemove(@, cb)]
       ELSE /\ last' = Call("off", h, tag, cb, ValueError)
            /\ UNCHANGED listeners
    /\ UNCHANGED <<allowed, once_listeners, child_emitters, subscriptions, regs>>
    /\ UNCHANGED LoopState

\* next(zip(*tups)): the callbacks of the registered pairs
OnceCallbacks(tups) == [i \in 1..Len(tups) |-> tups[i][1]]

\* Observable.once
Once(h, tag, cb, pred) ==
    /\ nOps < MaxOps
    /\ nOps' = nOps + 1
    /\ IF ~CheckEvent(h, tag)
       THEN /\ last' = Call("once", h, tag, cb, TypeError)
            /\ UNCHANGED <<once_listeners, regs>>
       ELSE IF ~CheckListener(OnceCallbacks(once_listeners[h][tag]), cb)
       THEN /\ last' = Call("once", h, tag, cb, ValueError)
            /\ UNCHANGED <<once_listeners, regs>>
       ELSE /\ last' = Call("once", h, tag, cb, NoError)
            /\ once_listeners' = [once_listeners EXCEPT ![h][tag] = Append(@, <<cb, pred>>)]
            /\ regs' = Append(regs, [hub |-> h, tag |-> tag, cb |-> cb, pred |-> pred,
                                     at |-> Len(ems)])
    /\ UNCHANGED <<allowed, listeners, child_emitters, subscriptions>>
    /\ UNCHANGED LoopState

\* Observable.add_child
AddChild(h, c) ==
    /\ Rank(h) < Rank(c)
    /\ IF Contains(child_emitters[h], c)
       THEN /\ last' = Call("add_child", h, c, "-", ValueError)
            /\ UNCHANGED child_emitters
       ELSE /\ last' = Call("add_child", h, c, "-", NoError)
            /\ child_emitters' = [child_emitters EXCEPT ![h] = Append(@, c)]
    /\ UNCHANGED <<allowed, listeners, once_listeners, subscriptions, regs, nOps>>
    /\ UNCHANGED LoopState

\* Observable.remove_child
RemoveChild(h, c) ==
    /\ Rank(h) < Rank(c)
    /\ IF Contains(child_emitters[h], c)
       THEN /\ last' = Call("remove_child", h, c, "-", NoError)
            /\ child_emitters' = [child_emitters EXCEPT ![h] = ListRemove(@, c)]
       ELSE /\ last' = Call("remove_child", h, c, "-", ValueError)
            /\ UNCHANGED child_emitters
    /\ UNCHANGED <<allowed, listeners, once_listeners, subscriptions, regs, nOps>>
    /\ UNCHANGED LoopState

\* Subscription.__init__, with the consumer that reads it: pc is where the
\* consumer stands ("idle": not in next), pred the predicate of its next
\* call, cand the event its predicate is looking at, pushed the events
\* _emit stored, hit where the consumer stood in its next call when
\* unsubscribe closed the subscription ("": it was not in one), nunsub how
\* often the unsub callback was invoked
NewSubscription(h, key) ==
    [hub |-> h, key |-> key, closed |-> FALSE, event_set |-> FALSE,
     current |-> NoEvent, pc |-> "idle", pred |-> NoPred, cand |-> NoEvent,
     pushed |-> <<>>, ncalls |-> 0, hit |-> "", nunsub |-> 0]

\* Observable.subscribe
Subscribe(h, key) ==
    /\ Len(subs) < MaxSubs
    /\ IF key # NoneKey /\ ~CheckEvent(h, key)
       THEN /\ last' = Call("subscribe", h, key, "-", TypeError)
            /\ UNCHANGED <<subscriptions, subs>>
       ELSE /\ last' = Call("subscribe", h, key, "-", NoError)
            /\ subs' = Append(subs, NewSubscription(h, key))
            /\ subscriptions' = [subscriptions EXCEPT ![h][key] = Append(@, Len(subs) + 1)]
    /\ UNCHANGED <<allowed, listeners, once_listeners, child_emitters, regs, nOps>>
    /\ UNCHANGED <<tasks, ready, ems, calls, returned, log>>

\* ------------------------------------------------------------- emission
UserEmits == Count(ems, LAMBDA e : e.src = "user")
\* a fresh event object
NextId == Len(ems) + 1

\* Observable.emit, called by user code with a new event
Emit(h, tag, a) ==
    /\ UserEmits < MaxEmits
    /\ LET ev == [tag |-> tag, a |-> a, id |-> NextId, of |-> 0, by |-> "-"]
           w == EmitW(World, h, ev, FALSE, 0, "user")
       IN /\ Commit(w)
          /\ last' = Call("emit", h, tag, "-", IF w.raised THEN TypeError ELSE NoError)
    /\ UNCHANGED <<allowed, listeners, once_listeners, child_emitters, subscriptions,
                   calls, returned, regs, nOps>>

\* ---------------------------------------------------------- subscription
\* HubUnsubscribe that leaves the list as it is
HubUnsubscribe_Keep(h, key, s) == subscriptions

\* Observable.__unsubscribe
HubUnsubscribe(h, key, s) ==
    IF Contains(subscriptions[h][key], s)
    THEN [subscriptions EXCEPT ![h][key] = ListRemove(@, s)]
    ELSE subscriptions

\* Unsubscribe without the final __event_set.set()
Unsubscribe_NoSet(s) ==
    /\ s \in 1..Len(subs)
    /\ last' = Call("unsubscribe", subs[s].hub, subs[s].key, "-", NoError)
    /\ IF subs[s].closed
       THEN UNCHANGED <<subscriptions, subs, ready>>
       ELSE /\ subscriptions' = HubUnsubscribe(subs[s].hub, subs[s].key, s)
            /\ subs' = [subs EXCEPT ![s].closed = TRUE, ![s].nunsub = @ + 1,
                                    ![s].hit = IF subs[s].pc = "idle" THEN "" ELSE subs[s].pc]
            /\ UNCHANGED ready
    /\ UNCHANGED <<allowed, listeners, once_listeners, child_emitters, regs, nOps>>
    /\ UNCHANGED <<tasks, ems, calls, returned, log>>

\* Subscription.unsubscribe
Unsubscribe(s) ==
    /\ s \in 1..Len(subs)
    /\ last' = Call("unsubscribe", subs[s].hub, subs[s].key, "-", NoError)
    /\ IF subs[s].closed
       THEN UNCHANGED <<subscriptions, subs, ready>>
       ELSE /\ subscriptions' = HubUnsubscribe(subs[s].hub, subs[s].key, s)
            /\ LET w == EventSet([World EXCEPT !.subs[s].closed = TRUE,
                                                !.subs[s].nunsub = @ + 1,
                                                !.subs[s].hit = IF subs[s].pc = "idle" THEN ""
                                                                ELSE subs[s].pc], s)
               IN subs' = w.subs /\ ready' = w.ready
    /\ UNCHANGED <<allowed, listeners, once_listeners, child_emitters, regs, nOps>>
    /\ UNCHANGED <<tasks, ems, calls, returned, log>>

\* how a next() call ended: with an event, with SubscriptionClosed, or with
\* the exception of its predicate; from is where the call was when the
\* loop last ran it ("call": it has not been suspended)
Returned(s, sb, res, ev) ==
    [sub |-> s, res |-> res, ev |-> ev.id, pred |-> sb.pred, call |-> sb.ncalls,
     npushed |-> Len(sb.pushed), closed |-> sb.closed, hit |-> sb.hit, from |-> sb.pc]
NextEnds(sb, rets, s, res, ev) ==
    [sb |-> [sb EXCEPT !.pc = "idle", !.cand = NoEvent], returned |-> Append(rets, Returned(s, sb, res, ev))]
NextGoesOn(sb, rets) == [sb |-> sb, returned |-> rets]

\* next's "if await maybe_await(predicate(event))" once the predicate has
\* answered for event ev; a False answer goes round the loop into _next,
\* which blocks in wait() unless an event was pushed meanwhile
RECURSIVE Judge(_, _, _, _, _)
\* NextBody whose _next leaves the flag set after reading the event
NextBody_NoClear(sb, rets, s, susp) ==
    IF sb.closed THEN NextEnds(sb, rets, s, "closed", NoEvent)
    ELSE LET ev == sb.current
         IN IF sb.pred = NoPred THEN NextEnds(sb, rets, s, "event", ev)
            ELSE IF susp
            THEN NextGoesOn([sb EXCEPT !.pc = "pred", !.cand = ev], rets)
            ELSE Judge(sb, rets, s, ev, susp)

\* Subscription._next from the point wait() has returned, then next's
\* predicate; susp says whether the predicate call suspends
NextBody(sb, rets, s, susp) ==
    IF sb.closed THEN NextEnds(sb, rets, s, "closed", NoEvent)
    ELSE LET sb1 == [sb EXCEPT !.event_set = FALSE]
             ev == sb.current
         IN IF sb.pred = NoPred THEN NextEnds(sb1, rets, s, "event", ev)
            ELSE IF susp
            THEN NextGoesOn([sb1 EXCEPT !.pc = "pred", !.cand = ev], rets)
            ELSE Judge(sb1, rets, s, ev, susp)
Judge(sb, rets, s, ev, susp) ==
    CASE PredResult(sb.pred, ev) = "true" -> NextEnds(sb, rets, s, "event", ev)
      [] PredResult(sb.pred, ev) = "raise" -> NextEnds(sb, rets, s, "error", ev)
      [] OTHER -> IF sb.event_set
                  THEN NextBody([sb EXCEPT !.cand = NoEvent], rets, s, susp)
                  ELSE NextGoesOn([sb EXCEPT !.pc = "waiting", !.cand = NoEvent], rets)

InNext(sb) == sb.pc # "idle"
NextCalls == Len(returned) + Cardinality({s \in 1..Len(subs) : InNext(subs[s])})

\* Subscription.next called by the subscription's consumer
Next_(s, p, susp) ==
    /\ s \in 1..Len(subs)
    /\ subs[s].pc = "idle"
    /\ NextCalls < MaxNext
    /\ LET sb == [subs[s] EXCEPT !.pred = p, !.ncalls = @ + 1, !.pc = "call", !.hit = ""]
           r == IF sb.event_set THEN NextBody(sb, returned, s, susp)
                ELSE NextGoesOn([sb EXCEPT !.pc = "waiting"], returned)
       IN /\ subs' = [subs EXCEPT ![s] = r.sb]
          /\ returned' = r.returned
    /\ last' = Call("next", subs[s].hub, subs[s].key, p, NoError)
    /\ UNCHANGED <<allowed, listeners, once_listeners, child_emitters, subscriptions,
                   regs, nOps, tasks, ready, ems, calls, log>>

\* RunConsumer whose _next does not look at __closed
RunConsumer_NoClosedCheck(susp) ==
    /\ ready # <<>>
    /\ Head(ready).k = "cons"
    /\ LET s == Head(ready).id
           sb == subs[s]
           r == IF sb.pc = "woken" THEN NextBody([sb EXCEPT !.closed = FALSE], returned, s, susp)
                ELSE Judge(sb, returned, s, sb.cand, susp)
       IN /\ subs' = [subs EXCEPT ![s] = [r.sb EXCEPT !.closed = sb.closed]]
          /\ returned' = r.returned
    /\ ready' = Tail(ready)
    /\ UNCHANGED <<allowed, listeners, once_listeners, child_emitters, subscriptions,
                   regs, last, nOps, tasks, ems, calls, log>>

\* the loop runs the consumer: wait() returned, or its predicate answered
RunConsumer(susp) ==
    /\ ready # <<>>
    /\ Head(ready).k = "cons"
    /\ LET s == Head(ready).id
           sb == subs[s]
           r == IF sb.pc = "woken" THEN NextBody(sb, returned, s, susp)
                ELSE Judge(sb, returned, s, sb.cand, susp)
       IN /\ subs' = [subs EXCEPT ![s] = r.sb]
          /\ returned' = r.returned
    /\ ready' = Tail(ready)
    /\ UNCHANGED <<allowed, listeners, once_listeners, child_emitters, subscriptions,
                   regs, last, nOps, tasks, ems, calls, log>>

\* the awaitable a coroutine predicate of next() waits for completes
WakeConsumer(s) ==
    /\ s \in 1..Len(subs)
    /\ subs[s].pc = "pred"
    /\ subs' = [subs EXCEPT ![s].pc = "predwoken"]
    /\ ready' = Append(ready, ConsEntry(s))
    /\ UNCHANGED <<allowed, listeners, once_listeners, child_emitters, subscriptions,
                   regs, last, nOps, tasks, ems, calls, returned, log>>

\* ---------------------------------------------------------------- tasks
Finished(t) == t.pc \in {"done", "failed"}

\* a task ends: whoever awaits it is scheduled
EndTask(w, t, pc) ==
    LET w1 == [w EXCEPT !.tasks[t].pc = pc]
    IN IF w.tasks[t].waiter = 0 THEN w1
       ELSE [w1 EXCEPT !.tasks[w.tasks[t].waiter].pc = "fired",
                       !.ready = Append(@, TaskEntry(w.tasks[t].waiter))]

\* fire_listener's except branch: log.error, then the ListenerError is
\* emitted on the same hub unless ignore_exceptions; the future of that
\* emission is dropped
HandleError(w, t) ==
    LET tk == w.tasks[t]
        w1 == [w EXCEPT !.log = Append(@, [what |-> "listener_error", sub |-> 0,
                                           ev |-> tk.ev.id, hub |-> tk.hub])]
    IN IF tk.ign THEN w1
       ELSE EmitW(w1, tk.hub, MkListenerError(Len(w1.ems) + 1, tk.ev, tk.cb),
                  TRUE, 0, "listener")

\* FireOutcome without the try / except around the listener
FireOutcome_NoExcept(w, t, out) ==
    IF out = "ok" THEN EndTask(w, t, "done") ELSE EndTask(w, t, "failed")

\* fire_listener once the listener has returned or raised
FireOutcome(w, t, out) ==
    IF out = "ok" THEN EndTask(w, t, "done")
    ELSE LET w1 == HandleError(w, t)
         IN EndTask([w1 EXCEPT !.raised = FALSE], t,
                    IF w1.raised THEN "failed" ELSE "done")

Outcomes(cb, pc) ==
    IF pc = "start" /\ cb \in AsyncCallbacks THEN {"ok", "raise", "suspend"}
    ELSE {"ok", "raise"}

\* the loop runs a fire_listener task (Observable.__fire_listener): the
\* listener is called; a coroutine listener may suspend and go on later
RunFire(out) ==
    /\ ready # <<>>
    /\ Head(ready).k = "task"
    /\ LET t == Head(ready).id
           tk == tasks[t]
           w == [World EXCEPT !.ready = Tail(ready)]
       IN /\ tk.kind = "fire"
          /\ out \in Outcomes(tk.cb, tk.pc)
          /\ calls' = IF tk.pc = "start"
                      THEN Append(calls, [hub |-> tk.hub, cb |-> tk.cb, ev |-> tk.ev.id,
                                          em |-> tk.em, task |-> t,
                                          as |-> IF tk.waiter = 0 THEN "on" ELSE "once"])
                      ELSE calls
          /\ IF out = "suspend"
             THEN Commit([w EXCEPT !.tasks[t].pc = "cb"])
             ELSE Commit(FireOutcome(w, t, out))
    /\ UNCHANGED <<allowed, listeners, once_listeners, child_emitters, subscriptions,
                   regs, last, nOps, returned>>

\* OnceJudge with the pair left on the list when the listener fires
OnceJudge_NoRemove(w, t, tups) ==
    LET tk == w.tasks[t]
        res == PredResult(tk.pred, tk.ev)
    IN IF res = "raise" THEN [w |-> EndTask(w, t, "failed"), tups |-> tups]
       ELSE IF res = "false" THEN [w |-> EndTask(w, t, "done"), tups |-> tups]
       ELSE IF ~Contains(tups, <<tk.cb, tk.pred>>)
       THEN [w |-> EndTask(w, t, "done"), tups |-> tups]
       ELSE [w |-> CreateTask([w EXCEPT !.tasks[t].pc = "wait_fire"],
                              NewTask("fire", tk.hub, tk.ev, tk.cb, tk.pred, tk.ign,
                                      tk.em, t)),
             tups |-> tups]

\* OnceJudge with the pair taken off the list before the predicate's answer
\* is looked at
OnceJudge_RemoveFirst(w, t, tups) ==
    LET tk == w.tasks[t]
        res == PredResult(tk.pred, tk.ev)
        left == IF Contains(tups, <<tk.cb, tk.pred>>)
                THEN ListRemove(tups, <<tk.cb, tk.pred>>) ELSE tups
    IN IF res = "raise" THEN [w |-> EndTask(w, t, "failed"), tups |-> left]
       ELSE IF res = "false" THEN [w |-> EndTask(w, t, "done"), tups |-> left]
       ELSE IF ~Contains(tups, <<tk.cb, tk.pred>>)
       THEN [w |-> EndTask(w, t, "done"), tups |-> tups]
       ELSE [w |-> CreateTask([w EXCEPT !.tasks[t].pc = "wait_fire"],
                              NewTask("fire", tk.hub, tk.ev, tk.cb, tk.pred, tk.ign,
                                      tk.em, t)),
             tups |-> left]

\* fire (of __emit_once_listeners) once the predicate has answered: the
\* pair is taken off the list, and the listener is fired in a task of its
\* own, which fire awaits
OnceJudge(w, t, tups) ==
    LET tk == w.tasks[t]
        res == PredResult(tk.pred, tk.ev)
    IN IF res = "raise" THEN [w |-> EndTask(w, t, "failed"), tups |-> tups]
       ELSE IF res = "false" THEN [w |-> EndTask(w, t, "done"), tups |-> tups]
       ELSE IF ~Contains(tups, <<tk.cb, tk.pred>>)
       THEN [w |-> EndTask(w, t, "done"), tups |-> tups]
       ELSE [w |-> CreateTask([w EXCEPT !.tasks[t].pc = "wait_fire"],
                              NewTask("fire", tk.hub, tk.ev, tk.cb, tk.pred, tk.ign,
                                      tk.em, t)),
             tups |-> ListRemove(tups, <<tk.cb, tk.pred>>)]

\* the task fire awaited has ended
FiredTask(w, t) == CHOOSE f \in 1..Len(w.tasks) : w.tasks[f].waiter = t

\* the loop runs a task of __emit_once_listeners (fire); susp says whether
\* the predicate call suspends
RunOnce(susp) ==
    /\ ready # <<>>
    /\ Head(ready).k = "task"
    /\ LET t == Head(ready).id
           tk == tasks[t]
           w == [World EXCEPT !.ready = Tail(ready)]
           tups == once_listeners[tk.hub][tk.ev.tag]
       IN /\ tk.kind = "once"
          /\ IF tk.pc = "fired"
             THEN /\ Commit(EndTask(w, t, IF w.tasks[FiredTask(w, t)].pc = "failed"
                                          THEN "failed" ELSE "done"))
                  /\ UNCHANGED once_listeners
             ELSE IF tk.pc = "start" /\ susp /\ tk.pred # NoPred
             THEN /\ Commit([w EXCEPT !.tasks[t].pc = "pred", !.tasks[t].awaited = TRUE])
                  /\ UNCHANGED once_listeners
             ELSE LET r == OnceJudge(w, t, tups)
                  IN /\ Commit(r.w)
                     /\ once_listeners' = [once_listeners EXCEPT ![tk.hub][tk.ev.tag] = r.tups]
    /\ UNCHANGED <<allowed, listeners, child_emitters, subscriptions,
                   regs, last, nOps, calls, returned>>

\* the awaitable a coroutine listener or predicate waits for completes
Wake(t) ==
    /\ t \in 1..Len(tasks)
    /\ tasks[t].pc \in {"pred", "cb"}
    /\ tasks' = [tasks EXCEPT ![t].pc = IF @ = "pred" THEN "predwoken" ELSE "cbwoken"]
    /\ ready' = Append(ready, TaskEntry(t))
    /\ UNCHANGED <<allowed, listeners, once_listeners, child_emitters, subscriptions,
                   regs, last, nOps, subs, ems, calls, returned, log>>

\* what asyncio.gather(*futures) of emission i holds: "none" when __emit
\* raised and returned no future; "failed" as soon as a task of the
\* emission or a child's future holds an exception; "done" when all of
\* them have ended; else "pending"
RECURSIVE GatherState(_)
GatherState(i) ==
    LET parts == {t \in 1..Len(tasks) : tasks[t].em = i /\ tasks[t].waiter = 0}
        kids == {j \in 1..Len(ems) : ems[j].parent = i}
    IN IF ems[i].raised THEN "none"
       ELSE IF \/ \E t \in parts : tasks[t].pc = "failed"
               \/ \E j \in kids : GatherState(j) = "failed"
       THEN "failed"
       ELSE IF /\ \A t \in parts : tasks[t].pc = "done"
               /\ \A j \in kids : GatherState(j) = "done"
       THEN "done"
       ELSE "pending"

\* -------------------------------------------------------- specification
EmptyRegistry == [h \in Hubs |-> [t \in Tags |-> <<>>]]
NoCall == Call("-", "-", "-", "-", NoError)

\* HubEvents with the set left as the caller gave it
HubEvents_AsGiven(arg) ==
    IF arg.none THEN NoAllowList ELSE AllowList(arg.tags)

\* Observable.__init__: events is None, or a set that always holds
\* ListenerError
HubEvents(arg) ==
    IF arg.none THEN NoAllowList ELSE AllowList(arg.tags \cup {ListenerError})

Init ==
    /\ \E args \in [Hubs -> CtorEvents] : allowed = [h \in Hubs |-> HubEvents(args[h])]
    /\ listeners = EmptyRegistry
    /\ once_listeners = EmptyRegistry
    /\ child_emitters = [h \in Hubs |-> <<>>]
    /\ subscriptions = [h \in Hubs |-> [k \in Keys |-> <<>>]]
    /\ subs = <<>>
    /\ tasks = <<>>
    /\ ready = <<>>
    /\ ems = <<>>
    /\ calls = <<>>
    /\ returned = <<>>
    /\ log = <<>>
    /\ regs = <<>>
    /\ last = NoCall
    /\ nOps = 0

RunLoop ==
    \/ \E out \in {"ok", "raise", "suspend"} : RunFire(out)
    \/ \E susp \in BOOLEAN : RunOnce(susp)
    \/ \E susp \in BOOLEAN : RunConsumer(susp)

Next ==
    \/ \E h \in Hubs, tag \in Tags, cb \in Callbacks : On(h, tag, cb)
    \/ \E h \in Hubs, tag \in Tags \cup {NoneKey}, cb \in Callbacks \cup {NoneKey} : Off(h, tag, cb)
    \/ \E h \in Hubs, tag \in Tags, cb \in Callbacks, p \in Preds : Once(h, tag, cb, p)
    \/ \E h \in Hubs, c \in Hubs : AddChild(h, c)
    \/ \E h \in Hubs, c \in Hubs : RemoveChild(h, c)
    \/ \E h \in Hubs, key \in Keys : Subscribe(h, key)
    \/ \E s \in 1..MaxSubs : Unsubscribe(s)
    \/ \E h \in Hubs, tag \in Tags, a \in Payloads : Emit(h, tag, a)
    \/ \E s \in 1..MaxSubs, p \in Preds, susp \in BOOLEAN : Next_(s, p, susp)
    \/ \E s \in 1..MaxSubs : WakeConsumer(s)
    \/ \E t \in 1..Len(tasks) : Wake(t)
    \/ RunLoop

Spec == Init /\ [][Next]_vars

\* hubs built without an allow-list
InitOpen == Init /\ \A h \in Hubs : allowed[h].none

UserTags == Tags \ {ListenerError}

\* permanent listeners of one hub: on, off, emit and the loop
NextOn ==
    \/ \E tag \in UserTags, cb \in Callbacks : On("h1", tag, cb)
    \/ \E tag \in UserTags \cup {NoneKey}, cb \in Callbacks \cup {NoneKey} : Off("h1", tag, cb)
    \/ \E tag \in UserTags : Emit("h1", tag, 1)
    \/ \E out \in {"ok", "raise", "suspend"} : RunFire(out)
    \/ \E t \in 1..Len(tasks) : Wake(t)

SpecOn == InitOpen /\ [][NextOn]_vars

\* ------------------------------------------------------------------ C1
CallsOf(i, cb, as) == Count(calls, LAMBDA c : c.em = i /\ c.cb = cb /\ c.as = as)
\* a task of emission i for listener cb that the loop has not started
PendingFire(i, cb) ==
    \E t \in 1..Len(tasks) :
        /\ tasks[t].em = i /\ tasks[t].cb = cb
        /\ tasks[t].kind = "fire" /\ tasks[t].waiter = 0 /\ tasks[t].pc = "start"

\* C1: an emission of event E invokes every permanent listener that is
\* registered for type(E) when emit is called exactly once, with E (never
\* twice, and once as soon as its task has run), and invokes no permanent
\* listener that is not registered for type(E).
C1_PermanentListenersOnce ==
    \A i \in 1..Len(ems) :
        /\ \A cb \in Callbacks :
              /\ CallsOf(i, cb, "on") <= 1
              /\ ~Contains(ems[i].perm, cb) => CallsOf(i, cb, "on") = 0
              /\ (Contains(ems[i].perm, cb) /\ ~PendingFire(i, cb))
                    => CallsOf(i, cb, "on") = 1
        /\ \A k \in 1..Len(calls) :
              calls[k].em = i => calls[k].ev = ems[i].ev.id /\ calls[k].hub = ems[i].hub

\* an emission of A has invoked its listener c1 while c2 listens to B only
C1_Witness ==
    \E i \in 1..Len(ems) :
        /\ ems[i].ev.tag = "A"
        /\ ems[i].perm = <<"c1">>
        /\ Contains(listeners[ems[i].hub]["B"], "c2")
        /\ CallsOf(i, "c1", "on") = 1
        /\ ~PendingFire(i, "c1")

\* one-shot listeners of one hub: once, emit and the loop
NextOnce ==
    \/ \E p \in Preds : Once("h1", "A", "c1", p)
    \/ \E a \in Payloads : Emit("h1", "A", a)
    \/ Emit("h1", "B", 1)
    \/ \E out \in {"ok", "raise"} : RunFire(out)
    \/ \E susp \in BOOLEAN : RunOnce(susp)
    \/ \E t \in 1..Len(tasks) : Wake(t)

SpecOnce == InitOpen /\ [][NextOnce]_vars

\* --------------------------------------------------------------- C2, C3
Min(S) == CHOOSE x \in S : \A y \in S : x <= y
\* the callback of registration r was registered by once a single time
\* for r's hub and tag
Single(r) ==
    Count(regs, LAMBDA q : q.hub = r.hub /\ q.tag = r.tag /\ q.cb = r.cb) = 1
\* the emit calls of r's tag on r's hub issued after r was registered
Later(r) ==
    {i \in 1..Len(ems) : i > r.at /\ ems[i].hub = r.hub /\ ems[i].ev.tag = r.tag
                         /\ ems[i].checked}
\* those whose event the predicate of r accepts
TrueLater(r) == {i \in Later(r) : PredResult(r.pred, ems[i].ev) = "true"}
\* the invocations of r's callback as a one-shot listener of r's tag
OnceCalls(r) ==
    {k \in 1..Len(calls) : /\ calls[k].hub = r.hub /\ calls[k].cb = r.cb
                           /\ calls[k].as = "once"
                           /\ ems[calls[k].em].ev.tag = r.tag}
\* a task of emission i for r's callback that the loop has not started
NotStarted(i, r) ==
    \E t \in 1..Len(tasks) :
        tasks[t].em = i /\ tasks[t].cb = r.cb /\ tasks[t].pc = "start"
\* the tasks that evaluate r's predicate
OnceTasksOf(r) ==
    {t \in 1..Len(tasks) : /\ tasks[t].kind = "once" /\ tasks[t].hub = r.hub
                           /\ tasks[t].cb = r.cb /\ tasks[t].pred = r.pred
                           /\ tasks[t].ev.tag = r.tag}

\* C2: a one-shot listener registered (a single time) without a predicate
\* is invoked at most once, only with the event of the first emit call of
\* its tag issued after the registration, and exactly once as soon as the
\* tasks of that emission have started, however many emit calls were
\* issued before the loop ran.
C2_OnceFiresOnFirstEmission ==
    \A n \in 1..Len(regs) :
        LET r == regs[n]
        IN (r.pred = NoPred /\ Single(r)) =>
              /\ Cardinality(OnceCalls(r)) <= 1
              /\ \A k \in OnceCalls(r) : calls[k].em = Min(Later(r))
              /\ (Later(r) # {} /\ ~NotStarted(Min(Later(r)), r))
                    => Cardinality(OnceCalls(r)) = 1

\* two emit calls were issued while the listener was registered, every
\* task has ended, and the listener was invoked once
C2_Witness ==
    \E n \in 1..Len(regs) :
        LET r == regs[n]
        IN /\ r.pred = NoPred /\ Single(r)
           /\ \E i, j \in Later(r) :
                 /\ i < j
                 /\ Contains(ems[i].once, <<r.cb, r.pred>>)
                 /\ Contains(ems[j].once, <<r.cb, r.pred>>)
           /\ \A t \in 1..Len(tasks) : Finished(tasks[t])
           /\ Cardinality(OnceCalls(r)) = 1

\* C3 as stated: the listener is only ever invoked with the first emitted
\* event for which its predicate holds.
C3_FirstMatchingEventWins ==
    \A n \in 1..Len(regs) :
        LET r == regs[n]
        IN (r.pred # NoPred /\ Single(r)) =>
              \A k \in OnceCalls(r) : calls[k].em = Min(TrueLater(r))

\* C3 (amended): a one-shot listener registered (a single time) with
\* predicate P is invoked at most once and only with an event emitted after
\* the registration for which P holds; that event is the first such event
\* when no call of P suspended (as with every plain predicate); and while
\* no event for which P holds has been emitted the registration stays in
\* the registry.
C3_OnceWithPredicate ==
    \A n \in 1..Len(regs) :
        LET r == regs[n]
        IN (r.pred # NoPred /\ Single(r)) =>
              /\ Cardinality(OnceCalls(r)) <= 1
              /\ \A k \in OnceCalls(r) : calls[k].em \in TrueLater(r)
              /\ (\A t \in OnceTasksOf(r) : ~tasks[t].awaited)
                    => \A k \in OnceCalls(r) : calls[k].em = Min(TrueLater(r))
              /\ TrueLater(r) = {}
                    => Contains(once_listeners[r.hub][r.tag], <<r.cb, r.pred>>)

\* an event the predicate rejects was emitted, its task has ended, and the
\* listener was then invoked with a later event the predicate accepts
C3_Witness ==
    \E n \in 1..Len(regs) :
        LET r == regs[n]
        IN /\ r.pred # NoPred /\ Single(r)
           /\ \E i \in Later(r), k \in OnceCalls(r) :
                 /\ PredResult(r.pred, ems[i].ev) = "false"
                 /\ i < calls[k].em
                 /\ \A t \in OnceTasksOf(r) : tasks[t].em = i => tasks[t].pc = "done"

\* subscriptions of one hub and their consumers
NextSub ==
    \/ subs = <<>> /\ \E key \in {"A", NoneKey} : Subscribe("h1", key)
    \/ \E s \in 1..MaxSubs : Unsubscribe(s)
    \/ \E a \in Payloads : Emit("h1", "A", a)
    \/ Emit("h1", "B", 1)
    \/ \E s \in 1..MaxSubs, p \in Preds, susp \in BOOLEAN : Next_(s, p, susp)
    \/ \E s \in 1..MaxSubs : WakeConsumer(s)
    \/ \E susp \in BOOLEAN : RunConsumer(susp)

SpecSub == InitOpen /\ [][NextSub]_vars

\* the loop keeps running the entries of its queue
FairSpecSub == SpecSub /\ WF_vars(\E susp \in BOOLEAN : RunConsumer(susp))

\* ------------------------------------------------------------------ C4
\* the place of event id e among the events pushed into subscription s
PushedAt(s, e) == CHOOSE k \in 1..Len(subs[s].pushed) : subs[s].pushed[k] = e
EventReturns(s) == {k \in 1..Len(returned) : returned[k].sub = s /\ returned[k].res = "event"}

\* C4: a next() call without predicate returns the event pushed last
\* before it returns, and successive next() calls of a subscription return
\* events in the order they were pushed, none of them twice: an event that
\* was overwritten before it was read is never returned.
C4_NextReturnsLatest ==
    \A s \in 1..Len(subs) :
        /\ \A k \in EventReturns(s) :
              /\ \E n \in 1..Len(subs[s].pushed) : subs[s].pushed[n] = returned[k].ev
              /\ returned[k].pred = NoPred
                    => returned[k].ev = subs[s].pushed[returned[k].npushed]
        /\ \A k, m \in EventReturns(s) :
              k < m => PushedAt(s, returned[k].ev) < PushedAt(s, returned[m].ev)

\* two events were pushed before the first next() call, which returned the
\* second; the next call blocks instead of returning the first
C4_Witness ==
    \E s \in 1..Len(subs) :
        \E k \in EventReturns(s) :
            /\ returned[k].pred = NoPred /\ returned[k].from = "call"
            /\ returned[k].call = 1
            /\ PushedAt(s, returned[k].ev) = 2
            /\ subs[s].ncalls = 2 /\ subs[s].pc = "waiting"

\* ------------------------------------------------------------------ C5
\* C5 as stated: a next() call that was in progress when unsubscribe() was
\* called ends with SubscriptionClosed, never with an event.
C5_PendingNextNeverReturns ==
    \A k \in 1..Len(returned) : returned[k].hit # "" => returned[k].res = "closed"

BlockedInWait(sb) == sb.pc \in {"waiting", "woken"}

\* C5 (amended): a next() call, with or without predicate, that is blocked
\* waiting for an event when unsubscribe() is called ends, and ends with
\* SubscriptionClosed; a call that is suspended in its predicate when
\* unsubscribe() is called is not covered (it returns the event it holds
\* if the predicate accepts it).
C5_BlockedNextFailsClosed ==
    /\ [](\A k \in 1..Len(returned) :
            returned[k].hit \in {"waiting", "woken"} => returned[k].res = "closed")
    /\ \A s \in 1..MaxSubs :
          (s <= Len(subs) /\ subs[s].closed /\ BlockedInWait(subs[s]))
             ~> (s <= Len(subs) /\ ~InNext(subs[s]))

\* a next(predicate) call was blocked in wait() when unsubscribe() was
\* called and has ended with SubscriptionClosed
C5_Witness ==
    \E k \in 1..Len(returned) :
        /\ returned[k].hit = "waiting"
        /\ returned[k].pred # NoPred
        /\ returned[k].res = "closed"

\* ------------------------------------------------------------------ C6
\* C6 as stated: every next() call that ends after the subscription was
\* closed ends with SubscriptionClosed.
C6_ClosedFailsEveryNext ==
    \A k \in 1..Len(returned) : returned[k].closed => returned[k].res = "closed"

\* C6 (amended): closed only ever changes from false to true, and a next()
\* call that is started, or resumed from waiting for an event, after the
\* subscription was closed ends with SubscriptionClosed, also when an
\* unread event was pending at the moment of closing; only a call resumed
\* from its predicate, which took its event before the closing, ends
\* otherwise.
C6_ClosedIsFinal ==
    /\ [][\A s \in 1..Len(subs) : subs[s].closed => subs'[s].closed]_vars
    /\ [](\A k \in 1..Len(returned) :
            (returned[k].closed /\ returned[k].res # "closed")
               => /\ returned[k].from = "predwoken"
                  /\ returned[k].hit \in {"pred", "predwoken"}
                  /\ returned[k].pred # NoPred)

\* an event was pushed and not read when the subscription was closed, and
\* a next() call started afterwards ended with SubscriptionClosed
C6_Witness ==
    \E k \in 1..Len(returned) :
        /\ returned[k].closed /\ returned[k].res = "closed"
        /\ returned[k].from = "call"
        /\ returned[k].npushed = 1
        /\ \A m \in 1..Len(returned) : returned[m].res # "event"

\* failing listeners: a permanent and a one-shot listener of tag A on a
\* hub that gets a wildcard subscription and a child hub, and emissions of
\* tag A
NextErr ==
    \/ On("h1", "A", "c1")
    \/ Once("h1", "A", "c2", NoPred)
    \/ child_emitters["h1"] = <<>> /\ AddChild("h1", "h2")
    \/ subs = <<>> /\ Subscribe("h1", NoneKey)
    \/ Emit("h1", "A", 1)
    \/ \E out \in {"ok", "raise"} : RunFire(out)
    \/ RunOnce(FALSE)

SpecErr == InitOpen /\ [][NextErr]_vars

\* ------------------------------------------------------------------ C7
\* a listener raised while it handled the event of emission i
Raised(i) ==
    \E k \in 1..Len(log) :
        /\ log[k].what = "listener_error"
        /\ log[k].ev = ems[i].ev.id /\ log[k].hub = ems[i].hub
\* how many listeners raised while they handled the event of emission i
Failures(i) ==
    Count(log, LAMBDA l : /\ l.what = "listener_error"
                          /\ l.ev = ems[i].ev.id /\ l.hub = ems[i].hub)
AllEnded == ready = <<>> /\ \A t \in 1..Len(tasks) : Finished(tasks[t])

\* C7: no failure of a listener ends a task with an exception (the only
\* way the future of an emission comes to hold an error), and the future of
\* every emission is resolved once the loop has run its tasks; and in an
\* emission where a listener raised, each subscription of the event's tag
\* or of None has the event, each child hub has been handed the event, each
\* permanent listener is invoked once as soon as its task has started, and
\* a one-shot listener (registered a single time) whose first emission this
\* is is invoked once as well.
C7_ListenerFailureIsolated ==
    /\ \A t \in 1..Len(tasks) : tasks[t].pc # "failed"
    /\ AllEnded => \A i \in 1..Len(ems) : GatherState(i) = "done"
    /\ \A i \in 1..Len(ems) :
          Raised(i) =>
                /\ \A s \in SeqSet(ems[i].targets) : Contains(subs[s].pushed, ems[i].ev.id)
                /\ \A c \in SeqSet(ems[i].kids) :
                      \E j \in 1..Len(ems) :
                          /\ ems[j].parent = i /\ ems[j].hub = c
                          /\ ems[j].ev = ems[i].ev /\ ems[j].checked
                /\ \A cb \in SeqSet(ems[i].perm) :
                      CallsOf(i, cb, "on") = 1 \/ PendingFire(i, cb)
                /\ \A n \in 1..Len(regs) :
                      LET r == regs[n]
                      IN (Single(r) /\ Later(r) # {} /\ Min(Later(r)) = i
                            /\ ~NotStarted(i, r))
                            => \E k \in OnceCalls(r) : calls[k].em = i

\* an emission found a permanent listener, a one-shot listener, a
\* subscription and a child hub; both listeners were invoked and both
\* raised; the subscription and the child have the event, and the future of
\* the emission is resolved
C7_Witness ==
    \E i \in 1..Len(ems) :
        /\ ems[i].perm = <<"c1">> /\ ems[i].once = <<<<"c2", NoPred>>>>
        /\ ems[i].targets # <<>> /\ ems[i].kids = <<"h2">>
        /\ Failures(i) = 2
        /\ CallsOf(i, "c1", "on") = 1 /\ CallsOf(i, "c2", "once") = 1
        /\ AllEnded
        /\ GatherState(i) = "done"

\* failing listeners of ListenerError events on a hub and on its child, and
\* emissions of events of tag A and of ListenerError events
NextFwd ==
    \/ \E tag \in {"A", ListenerError} : On("h1", tag, "c1")
    \/ On("h2", ListenerError, "c1")
    \/ AddChild("h1", "h2")
    \/ \E tag \in {"A", ListenerError} : Emit("h1", tag, 1)
    \/ \E out \in {"ok", "raise"} : RunFire(out)

SpecFwd == InitOpen /\ [][NextFwd]_vars

\* ------------------------------------------------------------------ C8
\* the event that carries identity id
EventOf(id) == CHOOSE e \in {ems[k].ev : k \in 1..Len(ems)} : e.id = id

\* C8 as stated: when a listener fails that was invoked with a
\* ListenerError event, no ListenerError event is emitted for that failure:
\* no emitted ListenerError event wraps a ListenerError event.
C8_NoListenerErrorForListenerError ==
    \A j \in 1..Len(ems) :
        ems[j].src = "listener" => EventOf(ems[j].ev.of).tag # ListenerError

\* ------------------------------------------------------------------ C9
\* C9 as stated: once the predicate of a one-shot listener has raised, the
\* task ends without an exception, a ListenerError event for the emitted
\* event is emitted on the same hub, and the future of the emission holds
\* no error.
C9_PredicateFailureReported ==
    \A t \in 1..Len(tasks) :
        LET tk == tasks[t]
        IN (/\ tk.kind = "once"
            /\ PredResult(tk.pred, tk.ev) = "raise"
            /\ tk.pc \notin {"start", "pred", "predwoken"})
              => /\ tk.pc = "done"
                 /\ GatherState(tk.em) # "failed"
                 /\ \E j \in 1..Len(ems) :
                       /\ ems[j].hub = tk.hub /\ ems[j].ev.tag = ListenerError
                       /\ ems[j].ev.of = tk.ev.id /\ ems[j].src = "listener"

\* hub h1 built with or without an allow-list: on, once, subscribe, emit
\* and the loop
InitAllow == Init /\ allowed["h2"].none

NextAllow ==
    \/ \E tag \in {"B", ListenerError} : On("h1", tag, "c1")
    \/ \E tag \in {"A", "B"} : Once("h1", tag, "c1", NoPred)
    \/ subs = <<>> /\ \E key \in {"B", ListenerError, NoneKey} : Subscribe("h1", key)
    \/ \E tag \in {"B", ListenerError} : Emit("h1", tag, 1)
    \/ RunFire("ok")
    \/ RunOnce(FALSE)

SpecAllow == InitAllow /\ [][NextAllow]_vars

\* ----------------------------------------------------------------- C10
\* the events argument hub h was built with
Given(h) == CHOOSE arg \in CtorEvents : HubEvents(arg) = allowed[h]
\* h was built with an allow-list that does not hold tag, and tag is not
\* the ListenerError tag
Rejects(h, tag) ==
    ~Given(h).none /\ tag \notin Given(h).tags /\ tag # ListenerError
\* a step that is a call of on, once, subscribe or emit with tag on hub h
CallWith(h, tag) ==
    /\ last'.hub = h /\ last'.tag = tag
    /\ \/ last'.op = "on" /\ \E cb \in Callbacks : On(h, tag, cb)
       \/ last'.op = "once" /\ \E cb \in Callbacks, p \in Preds : Once(h, tag, cb, p)
       \/ last'.op = "subscribe" /\ Subscribe(h, tag)
       \/ last'.op = "emit" /\ \E a \in Payloads : Emit(h, tag, a)

\* no registry of a hub holds an entry under a tag its allow-list rejects
NoneRejected ==
    \A h \in Hubs, tag \in Tags :
        Rejects(h, tag) => /\ listeners[h][tag] = <<>>
                           /\ once_listeners[h][tag] = <<>>
                           /\ subscriptions[h][tag] = <<>>

\* C10: a call of on, once, subscribe or emit with a tag that the hub's
\* allow-list does not hold (and that is not ListenerError) raises
\* TypeError and changes no registry, no subscription and no task; with
\* every other tag, ListenerError on a hub with an allow-list and any tag
\* on a hub without one, the call raises no TypeError; and no registry of a
\* hub ever holds an entry under a tag its allow-list rejects.
C10_AllowListEnforced ==
    [][/\ \A h \in Hubs, tag \in Tags :
             CallWith(h, tag) =>
                IF Rejects(h, tag)
                THEN /\ last'.err = TypeError
                     /\ UNCHANGED <<listeners, once_listeners, child_emitters,
                                    subscriptions, subs, tasks, ready, calls,
                                    returned, log, regs>>
                ELSE last'.err # TypeError
       /\ NoneRejected']_vars

\* on a hub built with the allow-list {A}, a listener of ListenerError
\* events is registered, a subscription holds an event, and emit of an
\* event of tag B has just raised TypeError
C10_Witness ==
    \E h \in Hubs :
        /\ Given(h) = AllowList({"A"})
        /\ Contains(listeners[h][ListenerError], "c1")
        /\ \E s \in 1..Len(subs) : subs[s].hub = h /\ subs[s].pushed # <<>>
        /\ last = Call("emit", h, "B", "-", TypeError)
        /\ ~ems[Len(ems)].checked

\* both registries of one hub: on, once, off, emit and the loop
NextReg ==
    \/ \E tag \in UserTags, cb \in Callbacks : On("h1", tag, cb)
    \/ \E tag \in UserTags, cb \in Callbacks : Once("h1", tag, cb, NoPred)
    \/ \E tag \in UserTags : Off("h1", tag, "c1")
    \/ \E tag \in UserTags : Emit("h1", tag, 1)
    \/ RunFire("ok")
    \/ RunOnce(FALSE)

SpecReg == InitOpen /\ [][NextReg]_vars

\* ----------------------------------------------------------------- C11
\* no element of the sequence occurs twice
NoRepeat(s) == \A i, j \in 1..Len(s) : s[i] = s[j] => i = j
NoDuplicates ==
    \A h \in Hubs, tag \in Tags :
        /\ NoRepeat(listeners[h][tag])
        /\ NoRepeat(OnceCallbacks(once_listeners[h][tag]))

\* C11: no callback is ever twice in the permanent list of a tag or twice
\* in the one-shot list of a tag; on (once) with a callback that is in the
\* permanent (one-shot) list of the tag raises ValueError and changes no
\* registry, and with any other callback, be it registered under another
\* tag or in the other registry, it raises nothing and appends the
\* callback to the list of the tag.
C11_NoDuplicateListener ==
    [][/\ NoDuplicates'
       /\ \A h \in Hubs, tag \in Tags, cb \in Callbacks :
             /\ (last'.op = "on" /\ On(h, tag, cb)) =>
                   IF Contains(listeners[h][tag], cb)
                   THEN last'.err = ValueError /\ UNCHANGED Registries
                   ELSE /\ last'.err = NoError
                        /\ listeners' = [listeners EXCEPT ![h][tag] = Append(@, cb)]
             /\ \A p \in Preds :
                   (last'.op = "once" /\ Once(h, tag, cb, p)) =>
                      IF Contains(OnceCallbacks(once_listeners[h][tag]), cb)
                      THEN last'.err = ValueError /\ UNCHANGED Registries
                      ELSE /\ last'.err = NoError
                           /\ once_listeners' =
                                 [once_listeners EXCEPT ![h][tag] = Append(@, <<cb, p>>)]]_vars

\* on with a callback that is registered for the tag has just raised
\* ValueError and the callback is in the list once
C11_Witness ==
    /\ last = Call("on", "h1", "A", "c1", ValueError)
    /\ listeners["h1"]["A"] = <<"c1">>

\* permanent listeners of a hub built with or without an allow-list: on,
\* off, emit and the loop
NextOff ==
    \/ \E tag \in UserTags, cb \in Callbacks : On("h1", tag, cb)
    \/ \E tag \in UserTags \cup {NoneKey}, cb \in {"c1", NoneKey} : Off("h1", tag, cb)
    \/ Emit("h1", "A", 1)
    \/ RunFire("ok")

SpecOff == InitAllow /\ [][NextOff]_vars

\* ----------------------------------------------------------------- C12
\* a step that is the call off(tag, cb) on hub h
OffStep(h, tag, cb) == last'.op = "off" /\ Off(h, tag, cb)
\* list t is list s without its element x, the others in their order
Without(s, x, t) ==
    /\ Len(t) = Len(s) - 1
    /\ \E k \in 1..Len(s) :
          /\ s[k] = x
          /\ \A i \in 1..Len(t) : t[i] = IF i < k THEN s[i] ELSE s[i + 1]

NextUnsub ==
    \/ \E h \in Hubs, key \in {"A", NoneKey} : Subscribe(h, key)
    \/ \E s \in 1..MaxSubs : Unsubscribe(s)
    \/ child_emitters["h1"] = <<>> /\ AddChild("h1", "h2")
    \/ \E tag \in UserTags : Emit("h1", tag, 1)

SpecUnsub == InitOpen /\ [][NextUnsub]_vars

\* ----------------------------------------------------------------- C13
\* how often subscription s stands in the lists of the hubs
Listed(s) ==
    Cardinality({x \in Hubs \X Keys \X (1..Len(subs)) :
                    /\ x[3] <= Len(subscriptions[x[1]][x[2]])
                    /\ subscriptions[x[1]][x[2]][x[3]] = s})
\* the emissions that found subscription s closed
ClosedPushes(s) ==
    {k \in 1..Len(log) : log[k].what = "closed_subscription" /\ log[k].sub = s}

\* C13: a subscription that is not closed stands exactly once in the
\* lists of the hubs, in the list of its own hub and key, and its unsub
\* callback was never invoked; a closed one stands in no list and its
\* callback was invoked once; no emission finds a closed subscription; the
\* first unsubscribe() sets closed and the event and takes the
\* subscription out of its list, and every later one changes nothing.
C13_UnsubscribeIdempotent ==
    [][/\ \A s \in 1..Len(subs') :
             /\ Listed(s)' = IF subs'[s].closed THEN 0 ELSE 1
             /\ ~subs'[s].closed => Contains(subscriptions'[subs'[s].hub][subs'[s].key], s)
             /\ subs'[s].nunsub = IF subs'[s].closed THEN 1 ELSE 0
             /\ ClosedPushes(s)' = {}
       /\ \A s \in 1..Len(subs) :
             (last'.op = "unsubscribe" /\ Unsubscribe(s)) =>
                IF subs[s].closed
                THEN UNCHANGED <<subscriptions, subs, ready, tasks, ems, log>>
                ELSE /\ subs'[s].closed /\ subs'[s].event_set
                     /\ \A q \in 1..Len(subs) : q # s => subs'[q] = subs[q]]_vars

\* a closed subscription on which unsubscribe() has just been called again,
\* which holds an event pushed before the closing, and which an emission
\* its key matches has left out after the closing
C13_Witness ==
    \E s \in 1..Len(subs) :
        /\ subs[s].closed /\ subs[s].nunsub = 1
        /\ last.op = "unsubscribe"
        /\ Len(subs[s].pushed) = 1
        /\ \E i \in 1..Len(ems) :
              /\ ems[i].hub = subs[s].hub
              /\ subs[s].key \in {ems[i].ev.tag, NoneKey}
              /\ ~Contains(subs[s].pushed, ems[i].ev.id)

\* a subscription made before the first emission, under one tag or under
\* a tuple of tags, and its consumer
NextGroup ==
    \/ ems = <<>> /\ \E key \in {GroupKey, "A"} : Subscribe("h1", key)
    \/ \E tag \in UserTags, a \in Payloads : Emit("h1", tag, a)
    \/ \E s \in 1..MaxSubs, p \in Preds : Next_(s, p, FALSE)
    \/ RunConsumer(FALSE)

SpecGroup == InitOpen /\ [][NextGroup]_vars

\* ----------------------------------------------------------------- C14
\* C14 as stated: a subscription made with a tuple of tags has been handed
\* every event of one of these tags that its hub emitted since.
C14_GroupSubscriptionReceives ==
    \A s \in 1..Len(subs) :
        subs[s].key = GroupKey =>
           \A i \in 1..Len(ems) :
              (ems[i].hub = subs[s].hub /\ ems[i].ev.tag \in GroupTags)
                 => Contains(subs[s].pushed, ems[i].ev.id)


\* ------------------------------------------------------ stream iteration
\* the consumer's "async for event in sub" loop has ended: a next() call of
\* the loop stopped on the closed subscription
IterEnded(s) ==
    \E k \in 1..Len(returned) : returned[k].sub = s /\ returned[k].res = "closed"

\* one round of "async for event in sub": the loop asks for the next event
\* with next() and no predicate, and SubscriptionClosed ends the loop
\* instead of propagating
ANext(s) ==
    /\ s \in 1..Len(subs)
    /\ subs[s].pc = "idle"
    /\ ~IterEnded(s)
    /\ LET sb == [subs[s] EXCEPT !.pred = NoPred, !.ncalls = @ + 1, !.pc = "call", !.hit = ""]
           r == IF sb.event_set THEN NextBody(sb, returned, s, FALSE)
                ELSE NextGoesOn([sb EXCEPT !.pc = "waiting"], returned)
       IN /\ subs' = [subs EXCEPT ![s] = r.sb]
          /\ returned' = r.returned
    /\ last' = Call("anext", subs[s].hub, subs[s].key, NoPred, NoError)
    /\ UNCHANGED <<allowed, listeners, once_listeners, child_emitters, subscriptions,
                   regs, nOps, tasks, ready, ems, calls, log>>

\* the consumer of every open subscription has read what was pushed to it:
\* user code yields to the loop between two emissions, as test_aiter does
\* with asyncio.sleep(0)
CaughtUp == \A s \in 1..Len(subs) : subs[s].closed \/ ~subs[s].event_set

NextIter ==
    \/ subs = <<>> /\ \E key \in {"A", NoneKey} : Subscribe("h1", key)
    \/ \E tag \in UserTags, a \in Payloads : CaughtUp /\ Emit("h1", tag, a)
    \/ \E s \in 1..MaxSubs : Unsubscribe(s)
    \/ \E s \in 1..MaxSubs : ANext(s)
    \/ RunConsumer(FALSE)

SpecIter == InitOpen /\ [][NextIter]_vars
\* the loop runs what is ready, and the consumer's loop goes on to its next
\* round
FairSpecIter ==
    SpecIter /\ WF_vars(RunConsumer(FALSE)) /\ WF_vars(\E s \in 1..MaxSubs : ANext(s))

\* the events the consumer's loop received from subscription s, in order
Delivered(s) ==
    LET mine == SelectSeq(returned, LAMBDA r : r.sub = s /\ r.res = "event")
    IN [i \in 1..Len(mine) |-> mine[i].ev]

IterationInOrder(s) ==
    LET d == Delivered(s)
        p == subs[s].pushed
    IN /\ Len(d) <= Len(p)
       /\ \A i \in 1..Len(d) : d[i] = p[i]
       /\ Len(p) - Len(d) <= 1
       /\ (Len(d) < Len(p) /\ ~subs[s].closed) =>
              subs[s].event_set /\ subs[s].current.id = p[Len(p)]
IterationStopsCleanly(s) ==
    /\ \A k \in 1..Len(returned) :
          returned[k].sub = s =>
              /\ returned[k].res # "error"
              /\ returned[k].closed => returned[k].res = "closed"
    /\ IterEnded(s) => subs[s].closed

\* C15: a consumer that iterates a subscription and runs between successive
\* emissions receives the pushed events in push order, none skipped and
\* each eventually; once unsubscribe() was called its loop ends, with
\* SubscriptionClosed turned into the end of the iteration and never with
\* an event: what was pushed and unread at that moment is not delivered.
C15_IterationReceivesAllThenStops ==
    /\ [](\A s \in 1..Len(subs) : IterationInOrder(s) /\ IterationStopsCleanly(s))
    /\ \A s \in 1..MaxSubs :
          /\ (s <= Len(subs) /\ subs[s].closed) ~> (s <= Len(subs) /\ IterEnded(s))
          /\ (s <= Len(subs) /\ Len(Delivered(s)) < Len(subs[s].pushed))
                ~> (s <= Len(subs) /\ (subs[s].closed \/ Len(Delivered(s)) = Len(subs[s].pushed)))

\* the loop received the events pushed before the newest one in push order,
\* the newest was pushed and not read when unsubscribe() came, and the loop
\* ended without it
C15_Witness ==
    /\ Len(subs) = 1
    /\ IterEnded(1)
    /\ Len(subs[1].pushed) >= 2
    /\ Delivered(1) = SubSeq(subs[1].pushed, 1, Len(subs[1].pushed) - 1)
    /\ Len(Delivered(1)) >= 1


\* ------------------------------------------- push before listeners (C16)
NextPush ==
    \/ \E h \in Hubs, key \in {"A", NoneKey} : Subscribe(h, key)
    \/ \E s \in 1..MaxSubs : Unsubscribe(s)
    \/ nOps = 0 /\ On("h1", "A", "c1")
    \/ nOps = 1 /\ Once("h1", "A", "c2", "p")
    \/ subs # <<>> /\ child_emitters["h1"] = <<>> /\ AddChild("h1", "h2")
    \/ child_emitters["h1"] # <<>> /\ \E tag \in UserTags : Emit("h1", tag, 1)
    \/ RunFire("ok")
    \/ RunOnce(FALSE)

SpecPush == InitOpen /\ [][NextPush]_vars

\* the emissions the step makes: the call itself and what it forwards to
\* child hubs
NewEms == (Len(ems) + 1)..Len(ems')
\* subscription s is open on hub h under the tag or under the wildcard key
RegisteredFor(s, h, tag) ==
    /\ ~subs[s].closed
    /\ subs[s].hub = h
    /\ subs[s].key \in {tag, NoneKey}
\* the emissions of the step that concern subscription s
PushesTo(s) ==
    {i \in NewEms : ems'[i].checked /\ RegisteredFor(s, ems'[i].hub, ems'[i].ev.tag)}
PushedExactly ==
    \A s \in 1..Len(subs) :
        IF PushesTo(s) = {} THEN subs'[s].pushed = subs[s].pushed
        ELSE \E i \in PushesTo(s) :
                /\ PushesTo(s) = {i}
                /\ subs'[s].pushed = Append(subs[s].pushed, ems'[i].ev.id)
                /\ subs'[s].current = ems'[i].ev
\* when the emitting call is over nothing scheduled for it has run yet
NothingRanYet ==
    /\ \A t \in 1..Len(tasks') : tasks'[t].em \in NewEms => tasks'[t].pc = "start"
    /\ \A c \in 1..Len(calls') : calls'[c].em \notin NewEms

\* C16: the call that emits E pushes E into every open subscription of the
\* hub registered under type(E) or under the wildcard key and into no
\* other, and when that call is over no listener, one-shot listener or
\* predicate scheduled for the emission has started to run.
C16_PushBeforeListeners == [][PushedExactly /\ NothingRanYet]_vars

\* a listener of an emission has run, and the subscription the emission
\* found holds its event
C16_Witness ==
    \E c \in 1..Len(calls) :
        /\ ems[calls[c].em].targets # <<>>
        /\ \A k \in 1..Len(ems[calls[c].em].targets) :
              Contains(subs[ems[calls[c].em].targets[k]].pushed, calls[c].ev)


\* ------------------------------------------------- the emit future (C17)
\* a hub with a permanent and a one-shot listener and a child hub with a
\* listener of its own
NextGather ==
    \/ nOps = 0 /\ \E h \in Hubs : On(h, "A", "c1")
    \/ nOps = 1 /\ Once("h1", "A", "c2", "p")
    \/ child_emitters["h1"] = <<>> /\ AddChild("h1", "h2")
    \/ \E a \in Payloads : Emit("h1", "A", a)
    \/ \E out \in {"ok", "raise"} : RunFire(out)
    \/ RunOnce(FALSE)

SpecGather == InitOpen /\ [][NextGather]_vars

\* emission i with the emissions its call forwarded to child hubs
EmissionTree(i) ==
    {j \in 1..Len(ems) :
        \/ j = i
        \/ ems[j].parent = i
        \/ ems[j].parent # 0 /\ ems[ems[j].parent].parent = i}

\* C17 as stated: when the future emit returned is done, every task
\* scheduled for the emission has finished: the permanent listeners, the
\* one-shot listeners with their predicates, and the same on every child
\* hub the event was forwarded to.
C17_FutureAwaitsAllWork ==
    \A i \in 1..Len(ems) :
        GatherState(i) \in {"done", "failed"} =>
            \A t \in 1..Len(tasks) : tasks[t].em \in EmissionTree(i) => Finished(tasks[t])


\* ------------------------------------------------------------------ C18
\* the once() calls that registered the pair of task tk
RegsOf(tk) ==
    {n \in 1..Len(regs) : /\ regs[n].hub = tk.hub /\ regs[n].tag = tk.ev.tag
                          /\ regs[n].cb = tk.cb /\ regs[n].pred = tk.pred}
\* the step takes a pair off the one-shot registry of tk's hub and tag
Consumes(tk) ==
    Len(once_listeners'[tk.hub][tk.ev.tag]) < Len(once_listeners[tk.hub][tk.ev.tag])

\* C18 as stated: the task that takes a one-shot registration off the
\* registry (and then invokes its callback) belongs to an emit call issued
\* after the once() call that made the registration, so an emission older
\* than a re-registration neither removes it nor invokes the callback.
C18_ConsumedByLaterEmissionOnly ==
    [][(ready # <<>> /\ Head(ready).k = "task" /\ Consumes(tasks[Head(ready).id])) =>
          LET tk == tasks[Head(ready).id]
              n == CHOOSE m \in RegsOf(tk) : \A q \in RegsOf(tk) : q <= m
          IN tk.em > regs[n].at]_vars


\* ------------------------------------------------------------------ C19
\* listeners of one tag come and go while emissions are under way
NextSnap ==
    \/ \E cb \in Callbacks : On("h1", "A", cb)
    \/ \E cb \in {"c1", NoneKey} : Off("h1", "A", cb)
    \/ Emit("h1", "A", 1)
    \/ \E out \in {"ok", "raise"} : RunFire(out)

SpecSnap == InitOpen /\ [][NextSnap]_vars

\* the fire_listener tasks emission i created for listener cb
FireTasks(i, cb) ==
    {t \in 1..Len(tasks) : /\ tasks[t].em = i /\ tasks[t].cb = cb
                           /\ tasks[t].kind = "fire" /\ tasks[t].waiter = 0}
NowListening(i, cb) == Contains(listeners[ems[i].hub][ems[i].ev.tag], cb)

\* C19: the permanent listeners an emission invokes are fixed when emit is
\* called: each listener registered at that moment has one task from then
\* on and is invoked once that task has run, also when off has removed it
\* meanwhile; a listener that on added afterwards has no task of that
\* emission and is not invoked for it.
C19_ListenersFixedAtEmit ==
    \A i \in 1..Len(ems) : \A cb \in Callbacks :
        /\ Cardinality(FireTasks(i, cb)) = IF Contains(ems[i].perm, cb) THEN 1 ELSE 0
        /\ (Contains(ems[i].perm, cb) /\ ~NowListening(i, cb) /\ ~PendingFire(i, cb))
              => CallsOf(i, cb, "on") = 1
        /\ (~Contains(ems[i].perm, cb) /\ NowListening(i, cb))
              => CallsOf(i, cb, "on") = 0

\* c1 listened when the first event was emitted and was gone when the
\* second was; after that the first emission's task ran, c1 was invoked and
\* raised, which emitted the ListenerError
C19_Witness ==
    \E i, j, k \in 1..Len(ems) :
        /\ i < j /\ j < k
        /\ ems[i].src = "user" /\ Contains(ems[i].perm, "c1")
        /\ ems[j].src = "user" /\ ems[j].perm = <<>>
        /\ ems[k].src = "listener" /\ ems[k].ev.of = ems[i].ev.id /\ ems[k].ev.by = "c1"
        /\ CallsOf(i, "c1", "on") = 1


\* ------------------------------------------------------------------ C20
\* a hub that emits to a child hub built with or without an allow-list
NextRaise ==
    \/ subs = <<>> /\ \E key \in {"B", NoneKey} : Subscribe("h1", key)
    \/ On("h1", "B", "c1")
    \/ Once("h1", "B", "c2", NoPred)
    \/ child_emitters["h1"] = <<>> /\ AddChild("h1", "h2")
    \/ \E tag \in UserTags : Emit("h1", tag, 1)
    \/ RunFire("ok")
    \/ RunOnce(FALSE)

SpecRaise == Init /\ [][NextRaise]_vars

\* C20 as stated: an emit call that raised has pushed its event into no
\* subscription of its hub and has created no listener or one-shot task.
C20_RaisingEmitLeavesNothing ==
    \A i \in 1..Len(ems) :
        ems[i].raised =>
            /\ \A s \in 1..Len(subs) :
                  subs[s].hub = ems[i].hub => ~Contains(subs[s].pushed, ems[i].ev.id)
            /\ \A t \in 1..Len(tasks) : tasks[t].em # i

====
